---- MODULE Spec2Model ----
(***************************************************************************)
(* Model of normal_gen/viirs_mosaic.py: the per-date VIIRS pipeline        *)
(* (process_viirs: Convert -> Reproject -> Mosaic over a multiprocessing   *)
(* Pool) and the granule converter build_viirs_tif.                        *)
(*                                                                         *)
(* Text is modelled as a sequence of atoms.  An atom is one character      *)
(* ("=", "(", ")", ",", "-", a digit, a white-space character) or a        *)
(* maximal run of letters that the code treats as a unit                   *)
(* ("UpperLeftPointMtrs", "LowerRightMtrs", "GROUP", ...).                 *)
(* A file name is a sequence of atoms as well: <<"g1", "_out", ".tif">>.   *)
(***************************************************************************)
EXTENDS Integers, Sequences, FiniteSets, TLC

VARIABLES
    \* ---- process_viirs(date) and its worker pool ----
    pc,          \* position of process_viirs: idle/convert/reproject/mosaic/done/aborted
    runs,        \* number of process_viirs(date) calls started so far
    granules,    \* source directory: granule base name -> content of its .h5 scene
    dir,         \* names of the files in data/intermediate_tif/viirs/<date>
    archive,     \* TRUE iff the archive year directory exists
    conv_st,     \* Convert batch: scene path -> state of its build_viirs_tif unit
    repr_st,     \* Reproject batch: raster path -> state of its reproject_viirs unit
    written,     \* files created or overwritten so far by the current run
    mosaic_srcs, \* src_files_to_mosaic of the merge that last wrote final.tif
    prev_done,   \* TRUE iff the previous run of process_viirs ended normally
    \* ---- one call of build_viirs_tif(date, scene) on its own ----
    scene,       \* content of the .h5 scene handed to the call
    raster       \* what the call did: the raster it wrote, or the raise

vars == <<pc, runs, granules, dir, archive, conv_st, repr_st, written,
          mosaic_srcs, prev_done, scene, raster>>

pipe_vars == <<pc, runs, granules, dir, archive, conv_st, repr_st, written,
               mosaic_srcs, prev_done>>

(***************************************************************************)
(* Bounds of the model.                                                    *)
(***************************************************************************)
\* process_viirs(date) is called at most MaxRuns times on the same date
MaxRuns == 2
\* a structural-metadata blob has at most MaxTokens tokens
MaxTokens == 3

(***************************************************************************)
(* Text helpers: what the str/bytes methods used by the code do.           *)
(***************************************************************************)
WhiteSpace == {" ", "\n", "\t"}

DigitSeq == <<"0", "1", "2", "3", "4", "5", "6", "7", "8", "9">>

IsDigit(c) == \E i \in 1..10 : DigitSeq[i] = c

DigitVal(c) == (CHOOSE i \in 1..10 : DigitSeq[i] = c) - 1

\* a in s   (substring test for a one-atom needle)
Contains(s, a) == \E i \in 1..Len(s) : s[i] = a

\* bytes.split(): the maximal runs of non-white-space atoms, in order
RECURSIVE split_ws(_, _)
split_ws(s, cur) ==
    IF s = <<>>
    THEN IF cur = <<>> THEN <<>> ELSE <<cur>>
    ELSE IF Head(s) \in WhiteSpace
         THEN IF cur = <<>> THEN split_ws(Tail(s), <<>>)
                            ELSE <<cur>> \o split_ws(Tail(s), <<>>)
         ELSE split_ws(Tail(s), Append(cur, Head(s)))

\* s.split('=(')[-1]: what follows the last "=(" of s, or s when it has none
after_eq_paren(s) ==
    LET hits == {i \in 1..(Len(s) - 1) : s[i] = "=" /\ s[i + 1] = "("}
    IN  IF hits = {} THEN s
        ELSE LET last == CHOOSE i \in hits : \A j \in hits : j <= i
             IN  SubSeq(s, last + 2, Len(s))

\* s.replace(')', '')
replace_close(s) == SelectSeq(s, LAMBDA c : c # ")")

\* s.split(','): the pieces between commas, empty pieces included
RECURSIVE split_comma(_, _)
split_comma(s, cur) ==
    IF s = <<>> THEN <<cur>>
    ELSE IF Head(s) = ","
         THEN <<cur>> \o split_comma(Tail(s), <<>>)
         ELSE split_comma(Tail(s), Append(cur, Head(s)))

RECURSIVE digits_value(_, _)
digits_value(s, acc) ==
    IF s = <<>> THEN acc
    ELSE digits_value(Tail(s), 10 * acc + DigitVal(Head(s)))

\* float(s) accepts an optional sign followed by at least one digit
\* (the numerals of the model have no fraction and no exponent)
float_ok(s) ==
    LET body == IF s # <<>> /\ Head(s) = "-" THEN Tail(s) ELSE s
    IN  body # <<>> /\ \A i \in 1..Len(body) : IsDigit(body[i])

\* float(s), for s with float_ok(s)
float(s) ==
    IF Head(s) = "-" THEN 0 - digits_value(Tail(s), 0)
    ELSE digits_value(s, 0)

(***************************************************************************)
(* build_viirs_tif                                                         *)
(***************************************************************************)
xRes == 375
yRes == -375
DefaultFillValue == 255

\* snow.attrs['_FillValue'][0]: raises when the attribute is absent (KeyError)
\* and when it cannot be indexed by 0 (a scalar, an empty array)
fill_lookup_raises(attr) ==
    \/ ~attr.present
    \/ attr.scalar
    \/ attr.vals = <<>>

\* lines 68-71: try: fillValue = snow.attrs['_FillValue'][0]  except: 255
fillValue(attr) ==
    IF fill_lookup_raises(attr) THEN DefaultFillValue ELSE attr.vals[1]

\* line 57-58: the decoded tokens of StructMetadata.0
fileMetadata(blob) == split_ws(blob, <<>>)

\* [i for i in fileMetadata if marker in i]
tokens_with(blob, marker) ==
    SelectSeq(fileMetadata(blob), LAMBDA t : Contains(t, marker))

\* variant: the two components taken in the wrong order
ulc_parts_swapped(ulc) ==
    LET ps == split_comma(replace_close(after_eq_paren(ulc)), <<>>)
    IN  IF Len(ps) < 2 THEN ps ELSE <<ps[2], ps[1]>> \o SubSeq(ps, 3, Len(ps))

\* lines 74-75: ulc.split('=(')[-1].replace(')', '').split(',')
ulc_parts(ulc) == split_comma(replace_close(after_eq_paren(ulc)), <<>>)

\* variant: the exception leaves build_viirs_tif after driver.Create
RaisedAfterCreate(line) ==
    [status |-> "raised", at |-> line, created |-> TRUE,
     nodata |-> 0, geoInfo |-> <<>>]

\* an exception leaves build_viirs_tif at `line`, which precedes line 86
Raised(line) ==
    [status |-> "raised", at |-> line, created |-> FALSE,
     nodata |-> 0, geoInfo |-> <<>>]

\* variant: line 77 dropped, the lower-right corner is not looked up
lrc_not_looked_up(blob) == FALSE

\* line 77: [i for i in fileMetadata if 'LowerRightMtrs' in i][0] raises
lrc_lookup_raises(blob) == tokens_with(blob, "LowerRightMtrs") = <<>>

\* build_viirs_tif(date, scene): the first statement that raises, or the
\* raster created at line 86 with its no-data value and geotransform
build_viirs_tif(sc) ==
    IF ~sc.snow THEN Raised(67)
    ELSE LET uls == tokens_with(sc.blob, "UpperLeftPointMtrs")
         IN  IF uls = <<>> THEN Raised(73)
             ELSE LET parts == ulc_parts(uls[1])
                  IN  IF ~float_ok(parts[1]) THEN Raised(74)
                      ELSE IF Len(parts) < 2 \/ ~float_ok(parts[2]) THEN Raised(75)
                      ELSE IF lrc_lookup_raises(sc.blob) THEN Raised(77)
                      ELSE [status  |-> "ok", at |-> 93, created |-> TRUE,
                            nodata  |-> fillValue(sc.fill),
                            geoInfo |-> <<float(parts[1]), xRes, 0,
                                          float(parts[2]), 0, yRes>>]

(***************************************************************************)
(* Inputs of build_viirs_tif: scenes built from a pool of metadata tokens, *)
(* in every order, with varying white space, and every shape of the        *)
(* _FillValue attribute.                                                   *)
(***************************************************************************)
CornerTok(marker, x, y) == <<marker, "=", "(">> \o x \o <<",">> \o y \o <<")">>

UL1 == CornerTok("UpperLeftPointMtrs", <<"-", "8">>, <<"5", "5">>)
UL2 == CornerTok("UpperLeftPointMtrs", <<"3">>, <<"4", "0">>)
LR1 == CornerTok("LowerRightMtrs", <<"-", "7">>, <<"4", "4">>)
GroupTok == <<"GROUP", "=", "GRID_1">>
MentionTok == <<"GridOrigin", "=", "UpperLeftPointMtrs">>

TokenPool == {UL1, UL2, LR1, GroupTok, MentionTok}

\* the token lists of at most MaxTokens distinct tokens
TokenLists ==
    {tl \in UNION {[1..n -> TokenPool] : n \in 0..MaxTokens} :
        \A i, j \in 1..Len(tl) : i # j => tl[i] # tl[j]}

\* the blob holding the tokens tl, separated by sep, inside margins pad
RECURSIVE join_tokens(_, _)
join_tokens(tl, sep) ==
    IF tl = <<>> THEN <<>>
    ELSE IF Len(tl) = 1 THEN tl[1]
    ELSE tl[1] \o sep \o join_tokens(Tail(tl), sep)

Separators == {<<" ">>, <<"\n", "\t">>}
Margins == {<<>>, <<"\n", " ">>}

Blobs ==
    {pad \o join_tokens(tl, sep) \o pad :
        tl \in TokenLists, sep \in Separators, pad \in Margins}

NoFill == [present |-> FALSE, scalar |-> FALSE, vals |-> <<>>]
ScalarFill(v) == [present |-> TRUE, scalar |-> TRUE, vals |-> <<v>>]
ArrayFill(vs) == [present |-> TRUE, scalar |-> FALSE, vals |-> vs]

FillAttrs ==
    {NoFill, ScalarFill(0), ScalarFill(255), ArrayFill(<<0>>),
     ArrayFill(<<255>>), ArrayFill(<<>>), ArrayFill(<<254, 0>>)}

Scenes == [blob : Blobs, snow : BOOLEAN, fill : FillAttrs]

NotCalled ==
    [status |-> "none", at |-> 0, created |-> FALSE, nodata |-> 0, geoInfo |-> <<>>]

NoScene == [blob |-> <<>>, snow |-> FALSE, fill |-> NoFill]

(***************************************************************************)
(* SpecConv: one call of build_viirs_tif on an arbitrary scene.            *)
(***************************************************************************)
PipeIdle ==
    /\ pc = "idle"
    /\ runs = 0
    /\ granules = <<>>
    /\ dir = {}
    /\ archive = FALSE
    /\ conv_st = <<>>
    /\ repr_st = <<>>
    /\ written = {}
    /\ mosaic_srcs = {}
    /\ prev_done = FALSE

InitConv ==
    /\ PipeIdle
    /\ scene \in Scenes
    /\ raster = NotCalled

CallBuildViirsTif ==
    /\ raster = NotCalled
    /\ raster' = build_viirs_tif(scene)
    /\ UNCHANGED <<scene, pipe_vars>>

NextConv == CallBuildViirsTif

SpecConv == InitConv /\ [][NextConv]_vars

(***************************************************************************)
(* File names of the date's intermediate directory.                        *)
(***************************************************************************)
\* line 41, line 227:  ".".join(os.path.split(p)[-1].split('.')[:-1])
base_name(path) == SubSeq(path, 1, Len(path) - 1)

\* line 42:  <date>/<name>.tif
native_tif(scene_path) == Append(base_name(scene_path), ".tif")

\* line 111:  <date>/<name>_out.tif
out_tif(name) == name \o <<"_out", ".tif">>

\* line 145:  <date>/final.tif
final_tif == <<"final", ".tif">>

\* glob(<dir>/*.tif)
glob_tif(d) == {f \in d : f[Len(f)] = ".tif"}

\* glob(<dir>/*_out.tif)
glob_out_tif(d) ==
    {f \in d : Len(f) >= 2 /\ f[Len(f)] = ".tif" /\ f[Len(f) - 1] = "_out"}

\* line 214: glob(<source>/<date>/*.h5)
viirs_granules == {<<g, ".h5">> : g \in DOMAIN granules}

\* lines 223-228: the raster a Reproject unit reads, the raster it writes
reproject_dst(tif) == out_tif(base_name(tif))

(***************************************************************************)
(* distribute: Pool(6).starmap(func, args).  A batch of at most 24 units   *)
(* is cut into chunks of one unit, so a unit that raises stops no other    *)
(* unit; starmap returns, or re-raises the first exception, once every     *)
(* unit has ended.                                                         *)
(***************************************************************************)
PoolSize == 6

Active == {"running", "racing"}

busy(st) == Cardinality({u \in DOMAIN st : st[u] \in Active})

worker_free(st) == busy(st) < PoolSize

\* variant: the batch has only been handed out, units may still be running
all_dispatched(st) == \A u \in DOMAIN st : st[u] # "pending"

\* p.starmap has every result: no unit is waiting or running
all_ended(st) == \A u \in DOMAIN st : st[u] \in {"done", "failed"}

\* variant: the workers' exceptions are dropped
starmap_never_raises(st) == FALSE

\* p.starmap re-raises in the caller
starmap_raises(st) == \E u \in DOMAIN st : st[u] = "failed"

(***************************************************************************)
(* Spec: process_viirs(date), called up to MaxRuns times on one date.      *)
(***************************************************************************)
GoodScene ==
    [blob |-> UL1 \o <<"\n">> \o LR1, snow |-> TRUE, fill |-> ArrayFill(<<255>>)]

NoULScene ==
    [blob |-> GroupTok \o <<"\n">> \o LR1, snow |-> TRUE, fill |-> ArrayFill(<<255>>)]

GranuleNames == {"g1", "g2"}

SourceDirs ==
    UNION {[S -> {GoodScene, NoULScene}] : S \in SUBSET GranuleNames}

\* what the intermediate directory may hold before the first run: nothing, or
\* the native raster of a granule (reruns add *_out.tif files and final.tif)
StartDirs ==
    {{}, {<<"g2", ".tif">>}}

Init ==
    /\ pc = "idle"
    /\ runs = 0
    /\ granules \in SourceDirs
    /\ dir \in StartDirs
    /\ archive = FALSE
    /\ conv_st = <<>>
    /\ repr_st = <<>>
    /\ written = {}
    /\ mosaic_srcs = {}
    /\ prev_done = FALSE
    /\ scene = NoScene
    /\ raster = NotCalled

\* lines 200-219: makedirs (an existing directory is no error), discover the
\* granules, build the Convert batch and hand it to the pool
ProcessViirsStart ==
    /\ pc \in {"idle", "done", "aborted"}
    /\ runs < MaxRuns
    /\ runs' = runs + 1
    /\ prev_done' = (pc = "done")
    /\ written' = {}
    /\ conv_st' = [p \in viirs_granules |-> "pending"]
    /\ repr_st' = <<>>
    /\ pc' = "convert"
    /\ UNCHANGED <<granules, dir, archive, mosaic_srcs, scene, raster>>

\* a worker takes a Convert unit: build_viirs_tif up to driver.Create
ConvertBegin(p) ==
    /\ pc = "convert"
    /\ conv_st[p] = "pending"
    /\ worker_free(conv_st)
    /\ LET out == build_viirs_tif(granules[p[1]])
       IN  /\ conv_st' = [conv_st EXCEPT
                              ![p] = IF out.status = "ok" THEN "running" ELSE "failed"]
           /\ IF out.created
              THEN /\ dir' = dir \cup {native_tif(p)}
                   /\ written' = written \cup {native_tif(p)}
              ELSE UNCHANGED <<dir, written>>
    /\ UNCHANGED <<pc, runs, granules, archive, repr_st, mosaic_srcs,
                   prev_done, scene, raster>>

\* the unit returns: band written, dataset closed
ConvertEnd(p) ==
    /\ pc = "convert"
    /\ conv_st[p] = "running"
    /\ conv_st' = [conv_st EXCEPT ![p] = "done"]
    /\ UNCHANGED <<pc, runs, granules, dir, archive, repr_st, written,
                   mosaic_srcs, prev_done, scene, raster>>

\* lines 220-228: distribute returns or raises; on return the directory is
\* enumerated and the Reproject batch handed to the pool
ConvertJoin ==
    /\ pc = "convert"
    /\ all_ended(conv_st)
    /\ IF starmap_raises(conv_st)
       THEN /\ pc' = "aborted"
            /\ UNCHANGED repr_st
       ELSE /\ pc' = "reproject"
            /\ repr_st' = [f \in glob_tif(dir) |-> "pending"]
    /\ UNCHANGED <<runs, granules, dir, archive, conv_st, written,
                   mosaic_srcs, prev_done, scene, raster>>

\* some other unit of the batch has the raster f open for writing
being_written(f) ==
    \E h \in DOMAIN repr_st : repr_st[h] \in Active /\ reproject_dst(h) = f

\* a worker takes a Reproject unit: open the source, create the destination.
\* A source that another unit is writing at that moment may fail to open;
\* a unit that reads a raster while it is rewritten is "racing".
ReprojectBegin(f) ==
    /\ pc = "reproject"
    /\ repr_st[f] = "pending"
    /\ worker_free(repr_st)
    /\ \/ /\ being_written(f)
          /\ repr_st' = [repr_st EXCEPT ![f] = "failed"]
          /\ UNCHANGED <<dir, written>>
       \/ /\ repr_st' =
                [h \in DOMAIN repr_st |->
                    IF h = f
                    THEN IF being_written(f) THEN "racing" ELSE "running"
                    ELSE IF h = reproject_dst(f) /\ repr_st[h] = "running"
                         THEN "racing"
                         ELSE repr_st[h]]
          /\ dir' = dir \cup {reproject_dst(f)}
          /\ written' = written \cup {reproject_dst(f)}
    /\ UNCHANGED <<pc, runs, granules, archive, conv_st, mosaic_srcs,
                   prev_done, scene, raster>>

\* the unit returns, or raises when the raster it read was being rewritten
ReprojectEnd(f) ==
    /\ pc = "reproject"
    /\ \/ /\ repr_st[f] \in Active
          /\ repr_st' = [repr_st EXCEPT ![f] = "done"]
       \/ /\ repr_st[f] = "racing"
          /\ repr_st' = [repr_st EXCEPT ![f] = "failed"]
    /\ UNCHANGED <<pc, runs, granules, dir, archive, conv_st, written,
                   mosaic_srcs, prev_done, scene, raster>>

\* lines 229-231: distribute returns or raises
ReprojectJoin ==
    /\ pc = "reproject"
    /\ all_ended(repr_st)
    /\ pc' = IF starmap_raises(repr_st) THEN "aborted" ELSE "mosaic"
    /\ UNCHANGED <<runs, granules, dir, archive, conv_st, repr_st, written,
                   mosaic_srcs, prev_done, scene, raster>>

\* variant: create_viirs_mosaic without the test of line 157
CreateViirsMosaicUnguarded ==
    /\ pc = "mosaic"
    /\ archive' = TRUE
    /\ dir' = dir \cup {final_tif}
    /\ written' = written \cup {final_tif}
    /\ mosaic_srcs' = glob_out_tif(dir)
    /\ pc' = "done"
    /\ UNCHANGED <<runs, granules, conv_st, repr_st, prev_done, scene, raster>>

\* lines 142-174: create_viirs_mosaic(intermediate_pth)
CreateViirsMosaic ==
    /\ pc = "mosaic"
    /\ archive' = TRUE
    /\ LET src_files_path == glob_out_tif(dir)
       IN  IF src_files_path # {}
           THEN /\ dir' = dir \cup {final_tif}
                /\ written' = written \cup {final_tif}
                /\ mosaic_srcs' = src_files_path
           ELSE UNCHANGED <<dir, written, mosaic_srcs>>
    /\ pc' = "done"
    /\ UNCHANGED <<runs, granules, conv_st, repr_st, prev_done, scene, raster>>

Next ==
    \/ ProcessViirsStart
    \/ \E p \in DOMAIN conv_st : ConvertBegin(p)
    \/ \E p \in DOMAIN conv_st : ConvertEnd(p)
    \/ ConvertJoin
    \/ \E f \in DOMAIN repr_st : ReprojectBegin(f)
    \/ \E f \in DOMAIN repr_st : ReprojectEnd(f)
    \/ ReprojectJoin
    \/ CreateViirsMosaic

Spec == Init /\ [][Next]_vars

(***************************************************************************)
(* Properties                                                              *)
(***************************************************************************)
Ended == {"done", "failed"}

conv_failed == \E p \in DOMAIN conv_st : conv_st[p] = "failed"
repr_failed == \E f \in DOMAIN repr_st : repr_st[f] = "failed"

\* the directory d holds a file named *_out.tif
has_out_tif(d) == \E f \in d : Len(f) >= 2 /\ f[Len(f) - 1] = "_out"

\* C1: a second run of process_viirs on the same date, after a run that ended
\* normally and with the same (non-empty) set of source granules, merges
\* final.tif from the same set of reprojected rasters as the run before it.
C1_RerunMergesSameSet ==
    [][(pc = "mosaic" /\ prev_done /\ DOMAIN granules # {} /\ pc' = "done")
          => mosaic_srcs' = mosaic_srcs]_vars

\* C2: full-batch barrier between the stages: every Convert unit has ended
\* before the Reproject batch is enumerated, every Reproject unit has ended
\* before create_viirs_mosaic runs, and no Reproject unit exists while a
\* Convert unit is waiting or running.
C2_StageBarrier ==
    /\ (pc \in {"reproject", "mosaic", "done"} \/ DOMAIN repr_st # {})
          => \A p \in DOMAIN conv_st : conv_st[p] \in Ended
    /\ (pc \in {"mosaic", "done"} \/ final_tif \in written)
          => \A f \in DOMAIN repr_st : repr_st[f] \in Ended
    /\ \A p \in DOMAIN conv_st, f \in DOMAIN repr_st :
          ~(conv_st[p] \notin Ended /\ repr_st[f] # "pending")

\* C2 witness: both granules converted, and a Reproject unit is running
C2_Witness ==
    /\ pc = "reproject"
    /\ Cardinality(DOMAIN conv_st) = 2
    /\ \E f \in DOMAIN repr_st : repr_st[f] \in Active

\* C3: a unit that raised is not skipped: the run never reaches a later
\* stage.  After a failed Convert unit no Reproject batch is enumerated, and
\* after any failed unit the run writes no final.tif.
C3_FailureAbortsRun ==
    /\ conv_failed =>
          /\ pc \in {"convert", "aborted"}
          /\ DOMAIN repr_st = {}
          /\ final_tif \notin written
    /\ repr_failed =>
          /\ pc \in {"reproject", "aborted"}
          /\ final_tif \notin written

\* C3 witness: a run aborted by a Convert unit whose granule has no
\* UpperLeftPointMtrs, while the other unit of the batch completed
C3_Witness ==
    /\ pc = "aborted"
    /\ \E p, q \in DOMAIN conv_st :
          /\ conv_st[p] = "failed"
          /\ build_viirs_tif(granules[p[1]]).at = 73
          /\ conv_st[q] = "done"

\* C4 as stated: after a unit has failed, the Reproject and Mosaic stages of
\* the same run still execute, so the run does not end by the exception.
C4_LaterStagesStillRun ==
    (conv_failed \/ repr_failed) => pc # "aborted"

\* C4 as amended: a failed Convert unit's raster is not written by the run;
\* the later stages of that run do not operate on what the other units left:
\* after a failed Convert unit the run writes nothing but the native rasters
\* of the units that did not fail, after a failed Reproject unit it writes
\* no final.tif, and what the run wrote stays in the directory.
C4_FailedUnitLeavesSiblingOutputs ==
    /\ \A p \in DOMAIN conv_st :
          conv_st[p] = "failed" => native_tif(p) \notin written
    /\ conv_failed =>
          written = {native_tif(p) : p \in {q \in DOMAIN conv_st : conv_st[q] # "failed"
                                                               /\ conv_st[q] # "pending"}}
    /\ repr_failed => final_tif \notin written
    /\ written \subseteq dir

\* C4 witness: a Reproject unit failed, the run ended by the exception and
\* the rasters of the units that completed are in the directory
C4_Witness ==
    /\ pc = "aborted"
    /\ repr_failed
    /\ \E f \in DOMAIN repr_st : repr_st[f] = "done" /\ reproject_dst(f) \in dir

\* C5: create_viirs_mosaic raises nothing; on a directory without *_out.tif
\* it writes no file (it only ensures the archive year directory), and on a
\* directory with at least one it writes exactly one file, final.tif.
C5_MosaicWritesOnlyFinal ==
    [][(pc = "mosaic" /\ pc' # pc) =>
          /\ pc' = "done"
          /\ archive'
          /\ IF has_out_tif(dir)
             THEN /\ dir' = dir \cup {final_tif}
                  /\ written' = written \cup {final_tif}
             ELSE /\ dir' = dir
                  /\ written' = written
                  /\ mosaic_srcs' = mosaic_srcs]_vars

\* C5 witness: create_viirs_mosaic has returned on an empty directory
C5_Witness ==
    /\ pc = "done"
    /\ archive
    /\ ~has_out_tif(dir)
    /\ final_tif \notin dir

\* C6: two units of one batch that run at the same time share no file: none
\* writes the file another one writes, none writes the file another one reads.
C6_UnitsShareNoFile ==
    /\ \A p, q \in DOMAIN conv_st :
          (p # q /\ conv_st[p] \in Active /\ conv_st[q] \in Active)
             => native_tif(p) \notin {native_tif(q), q}
    /\ \A f, h \in DOMAIN repr_st :
          (f # h /\ repr_st[f] \in Active /\ repr_st[h] \in Active)
             => reproject_dst(f) \notin {reproject_dst(h), h}

\* C7: the no-data value of the raster build_viirs_tif writes is 255 when
\* the dataset has no _FillValue attribute, and the attribute's value when
\* it has one, stored as a scalar or as a one-element array.
C7_FillValueVerbatim ==
    raster.status = "ok" =>
        IF ~scene.fill.present
        THEN raster.nodata = 255
        ELSE Len(scene.fill.vals) = 1 => raster.nodata = scene.fill.vals[1]

\* the corner tokens of the token pool, with the numbers they spell
Corners ==
    {[tok |-> UL1, x |-> -8, y |-> 55], [tok |-> UL2, x |-> 3, y |-> 40]}

\* a call that can reach the geotransform: the snow-cover dataset and a
\* LowerRightMtrs token are there
ConvertibleCall ==
    /\ raster # NotCalled
    /\ scene.snow
    /\ Contains(scene.blob, "LowerRightMtrs")

\* C8 as stated: whenever the blob has a token UpperLeftPointMtrs=(X,Y), in
\* any position and with any white space, the geotransform written is
\* (X, 375, 0, Y, 0, -375).
C8_CornerOfAnyMarkerToken ==
    \A c \in Corners :
        (ConvertibleCall /\ \E i \in 1..Len(fileMetadata(scene.blob)) :
                                fileMetadata(scene.blob)[i] = c.tok)
           => /\ raster.status = "ok"
              /\ raster.geoInfo = <<c.x, 375, 0, c.y, 0, -375>>

\* C8 as amended: whenever the FIRST token of the blob that contains the
\* text UpperLeftPointMtrs is the token UpperLeftPointMtrs=(X,Y), with any
\* white space and any other tokens around it, the geotransform written is
\* (X, 375, 0, Y, 0, -375).
C8_CornerOfFirstMarkerToken ==
    \A c \in Corners :
        (ConvertibleCall /\ \E i \in 1..Len(fileMetadata(scene.blob)) :
              /\ fileMetadata(scene.blob)[i] = c.tok
              /\ \A j \in 1..(i - 1) :
                    ~Contains(fileMetadata(scene.blob)[j], "UpperLeftPointMtrs"))
           => /\ raster.status = "ok"
              /\ raster.geoInfo = <<c.x, 375, 0, c.y, 0, -375>>

\* C8 witness: a blob with leading white space and three tokens, a second
\* marker token after UpperLeftPointMtrs=(3,40), converted with origin (3, 40)
C8_Witness ==
    /\ ConvertibleCall
    /\ Head(scene.blob) \in WhiteSpace
    /\ Len(tokens_with(scene.blob, "UpperLeftPointMtrs")) = 2
    /\ raster.status = "ok"
    /\ raster.geoInfo[1] = 3
    /\ raster.geoInfo[4] = 40

\* C9: the Reproject batch holds exactly one unit per native raster written
\* by the Convert stage of the same run, whatever the directory held before.
C9_ReprojectBatchIsConvertOutput ==
    pc = "reproject" =>
        DOMAIN repr_st = {native_tif(p) : p \in DOMAIN conv_st}

\* C10: a granule without a LowerRightMtrs token makes build_viirs_tif raise
\* before it creates its raster, although the corner's value is never used.
C10_NoLowerRightRaises ==
    (raster # NotCalled /\ ~Contains(scene.blob, "LowerRightMtrs"))
       => /\ raster.status = "raised"
          /\ ~raster.created

\* C10 witness: the raise of line 77, with the dataset and the upper-left
\* corner present and valid
C10_Witness ==
    /\ raster.status = "raised"
    /\ raster.at = 77
    /\ scene.snow
    /\ fileMetadata(scene.blob) = <<UL1>>

====
